---- MODULE Spec2Model ----
(***************************************************************************)
(* Model of communication_graph.py: the three predicates                   *)
(* isNeighborhoodCorrect, isUndirected and isTree over a Neighborhood      *)
(* (dict[int, set[int]]), including the inputs that are not of that type.  *)
(***************************************************************************)
EXTENDS Integers, Sequences, FiniteSets, TLC

(* ------------------------------------------------------------------ *)
(* Bounds of the input universe                                       *)
(* ------------------------------------------------------------------ *)

\* undirected graphs (and single-flaw variants of them) have keys in 1..MaxVertex
MaxVertex == 4

\* arbitrary directed graphs have keys and neighbors in 1..MaxDirVertex
MaxDirVertex == 3

\* inputs with wrongly typed parts are built on graphs over 1..MaxTypedVertex
MaxTypedVertex == 2

(* ------------------------------------------------------------------ *)
(* Python values                                                      *)
(* ------------------------------------------------------------------ *)

\* an int object and a str object; isinstance(x, int) is x.type = "int"
IntObj(i) == [type |-> "int", val |-> i]

StrObj == [type |-> "str", val |-> 0]

IntObjs(n) == {IntObj(i) : i \in 1..n}

\* a value of the mapping: a set, a list, or None
SetOf(S) == [type |-> "set", elems |-> S]

ListOf(S) == [type |-> "list", elems |-> S]

NoneValue == [type |-> "NoneType", elems |-> {}]

\* the argument: a dict with its items, or a list
DictOf(f) == [type |-> "dict", items |-> f]

EmptyList == [type |-> "list", items |-> <<>>]

isinstance(x, t) == x.type = t

(* ------------------------------------------------------------------ *)
(* The inputs                                                         *)
(* ------------------------------------------------------------------ *)

\* the sets of int objects a neighbor set over V can be
NeighborSets(V) == {SetOf(S) : S \in SUBSET V}

\* unordered pairs of distinct elements of K
PairsOf(K) == {P \in SUBSET K : Cardinality(P) = 2}

\* the symmetric dict with keys K whose edges are the pairs E
UndirectedGraph(K, E) ==
    DictOf([u \in K |-> SetOf({v \in K : {u, v} \in E})])

Keys(g) == DOMAIN g.items

\* g with the neighbors of u replaced by the value x
WithValue(g, u, x) == DictOf([g.items EXCEPT ![u] = x])

\* g with one direction of one edge removed, a self-loop added, or a neighbor
\* added that is no key
EdgeFlaws(g, dangling) ==
    UNION {
        {WithValue(g, u, SetOf(g.items[u].elems \ {v})) : v \in g.items[u].elems}
        \cup {WithValue(g, u, SetOf(g.items[u].elems \cup {u})),
              WithValue(g, u, SetOf(g.items[u].elems \cup {dangling}))}
        : u \in Keys(g)}

\* g with one part of the wrong type: a list or None for a neighbor set, a str
\* among the neighbors, a str key
TypeFlaws(g) ==
    UNION {
        {WithValue(g, u, ListOf(g.items[u].elems)),
         WithValue(g, u, NoneValue),
         WithValue(g, u, SetOf(g.items[u].elems \cup {StrObj}))}
        : u \in Keys(g)}
    \cup {DictOf([k \in Keys(g) \cup {StrObj} |->
                    IF k = StrObj THEN SetOf({}) ELSE g.items[k]])}

\* every dict[int, set[int]] with keys and neighbors in 1..MaxDirVertex
IsDirectedInput(g) ==
    \E K \in SUBSET IntObjs(MaxDirVertex) :
        \E f \in [K -> NeighborSets(IntObjs(MaxDirVertex))] : g = DictOf(f)

\* every symmetric dict without self-loops with keys in 1..MaxVertex
IsUndirectedInput(g) ==
    \E K \in SUBSET IntObjs(MaxVertex) :
        \E E \in SUBSET PairsOf(K) : g = UndirectedGraph(K, E)

\* a symmetric dict with one flawed edge
IsEdgeFlawInput(g) ==
    \E K \in SUBSET IntObjs(MaxVertex) :
        \E E \in SUBSET PairsOf(K) :
            g \in EdgeFlaws(UndirectedGraph(K, E), IntObj(MaxVertex + 1))

\* a dict over 1..MaxTypedVertex with one wrongly typed part, or no dict at all
IsTypeFlawInput(g) ==
    \/ \E K \in SUBSET IntObjs(MaxTypedVertex) :
          \E f \in [K -> NeighborSets(IntObjs(MaxTypedVertex))] :
              g \in TypeFlaws(DictOf(f))
    \/ g = EmptyList

IsInput(g) ==
    \/ IsDirectedInput(g)
    \/ IsUndirectedInput(g)
    \/ IsEdgeFlawInput(g)
    \/ IsTypeFlawInput(g)

(* ------------------------------------------------------------------ *)
(* Outcomes of a call: the value returned, or the exception raised    *)
(* ------------------------------------------------------------------ *)

Raises(r) == r \notin {"True", "False"}

Bool(b) == IF b THEN "True" ELSE "False"

(* ------------------------------------------------------------------ *)
(* isNeighborhoodCorrect                                              *)
(* ------------------------------------------------------------------ *)

\* ItemRejected without the test nbr == vertex
ItemRejectedNoSelfLoopTest(vertices, vertex, neighbors) ==
    \/ ~isinstance(vertex, "int")
    \/ ~isinstance(neighbors, "set")
    \/ \E nbr \in neighbors.elems :
          \/ ~isinstance(nbr, "int")
          \/ nbr \notin vertices

\* the body of the loop over the items returns False for this item
ItemRejected(vertices, vertex, neighbors) ==
    \/ ~isinstance(vertex, "int")
    \/ ~isinstance(neighbors, "set")
    \/ \E nbr \in neighbors.elems :
          \/ ~isinstance(nbr, "int")
          \/ nbr \notin vertices
          \/ nbr = vertex

\* neighborhood.keys() and the loop over neighborhood.items()
ScanItems(nb) ==
    IF ~isinstance(nb, "dict")
    THEN "AttributeError"
    ELSE LET vertices == Keys(nb)
         IN  IF \E vertex \in vertices : ItemRejected(vertices, vertex, nb.items[vertex])
             THEN "False"
             ELSE "True"

\* isNeighborhoodCorrect without the isinstance test of its argument
isNeighborhoodCorrectUnguarded(nb) == ScanItems(nb)

isNeighborhoodCorrect(nb) ==
    IF ~isinstance(nb, "dict") THEN "False" ELSE ScanItems(nb)

(* ------------------------------------------------------------------ *)
(* isUndirected                                                       *)
(* ------------------------------------------------------------------ *)

\* PairOutcome testing v not in neighborhood[u] in place of u not in neighborhood[v]
PairOutcomeSwapped(nb, u, v) ==
    IF v \notin Keys(nb) THEN "KeyError"
    ELSE IF isinstance(nb.items[v], "NoneType") THEN "TypeError"
    ELSE IF v \notin nb.items[u].elems THEN "False"
    ELSE "continue"

\* what the body of the inner loop does for the pair u, v:
\* the lookup neighborhood[v], then the membership test
PairOutcome(nb, u, v) ==
    IF v \notin Keys(nb) THEN "KeyError"
    ELSE IF isinstance(nb.items[v], "NoneType") THEN "TypeError"
    ELSE IF u \notin nb.items[v].elems THEN "False"
    ELSE "continue"

\* SymmetryScan with return True inside the inner loop: the call also ends,
\* with True, at a pair that has its reverse edge
SymmetryScanEarlyTrue(nb) ==
    IF ~isinstance(nb, "dict")
    THEN {"AttributeError"}
    ELSE LET ends ==
                 {"TypeError" : u \in {k \in Keys(nb) : isinstance(nb.items[k], "NoneType")}}
                 \cup UNION {{PairOutcome(nb, u, v) : v \in nb.items[u].elems} : u \in Keys(nb)}
         IN  IF ends = {} THEN {"True"}
             ELSE {IF e = "continue" THEN "True" ELSE e : e \in ends}

\* the loops over the items and over each neighbor set end the call at the
\* first pair that does not continue; the iteration order decides which pair
\* that is, so every such pair is a possible outcome
SymmetryScan(nb) ==
    IF ~isinstance(nb, "dict")
    THEN {"AttributeError"}
    ELSE LET ends ==
                 {"TypeError" : u \in {k \in Keys(nb) : isinstance(nb.items[k], "NoneType")}}
                 \cup UNION {{PairOutcome(nb, u, v) : v \in nb.items[u].elems} : u \in Keys(nb)}
         IN  IF ends \subseteq {"continue"} THEN {"True"} ELSE ends \ {"continue"}

\* isUndirected without its call of isNeighborhoodCorrect
isUndirectedUnguarded(nb) == SymmetryScan(nb)

\* isUndirected without its loops
isUndirectedNoScan(nb) ==
    LET correct == isNeighborhoodCorrect(nb)
    IN  IF Raises(correct) THEN {correct}
        ELSE IF correct = "False" THEN {"False"}
        ELSE {"True"}

isUndirected(nb) ==
    LET correct == isNeighborhoodCorrect(nb)
    IN  IF Raises(correct) THEN {correct}
        ELSE IF correct = "False" THEN {"False"}
        ELSE SymmetryScan(nb)

(* ------------------------------------------------------------------ *)
(* isTree, up to the traversal                                        *)
(* ------------------------------------------------------------------ *)

RECURSIVE SumLen(_, _)
\* sum(len(neighbors) for neighbors in neighborhood.values()) over the keys K
SumLen(nb, K) ==
    IF K = {} THEN 0
    ELSE LET k == CHOOSE x \in K : TRUE
         IN  Cardinality(nb.items[k].elems) + SumLen(nb, K \ {k})

Returned(r, l) == [outcome |-> r, line |-> l]

\* CountEdges comparing edges with n in place of n - 1
CountEdgesOffByOne(nb) ==
    LET n == Cardinality(Keys(nb))
        edges_twice == SumLen(nb, Keys(nb))
        edges == edges_twice \div 2
    IN  IF n = 0 THEN Returned("False", 89)
        ELSE IF edges_twice % 2 # 0 THEN Returned("False", 94)
        ELSE IF edges # n THEN Returned("False", 98)
        ELSE Returned("traverse", 101)

\* CountEdges without the comparison of edges with n - 1
CountEdgesNoEdgeTest(nb) ==
    LET n == Cardinality(Keys(nb))
        edges_twice == SumLen(nb, Keys(nb))
    IN  IF n = 0 THEN Returned("False", 89)
        ELSE IF edges_twice % 2 # 0 THEN Returned("False", 94)
        ELSE Returned("traverse", 101)

\* the counting part of isTree: where it returns, or that it goes on to the
\* traversal
CountEdges(nb) ==
    LET n == Cardinality(Keys(nb))
        edges_twice == SumLen(nb, Keys(nb))
        edges == edges_twice \div 2
    IN  IF n = 0 THEN Returned("False", 89)
        ELSE IF ~isinstance(nb, "dict") THEN Returned("AttributeError", 92)
        ELSE IF \E k \in Keys(nb) : isinstance(nb.items[k], "NoneType")
             THEN Returned("TypeError", 92)
        ELSE IF edges_twice % 2 # 0 THEN Returned("False", 94)
        ELSE IF edges # n - 1 THEN Returned("False", 98)
        ELSE Returned("traverse", 101)

\* the two guards of isTree, then the counting
TreeEntry(nb) ==
    LET correct == isNeighborhoodCorrect(nb)
    IN  IF Raises(correct) THEN {Returned(correct, 82)}
        ELSE IF correct = "False" THEN {Returned("False", 83)}
        ELSE {IF Raises(r) THEN Returned(r, 84)
              ELSE IF r = "False" THEN Returned("False", 85)
              ELSE CountEdges(nb) : r \in isUndirected(nb)}

(* ------------------------------------------------------------------ *)
(* The calls                                                          *)
(* ------------------------------------------------------------------ *)

VARIABLES
    neighborhood,   \* the argument of every call
    pc,             \* "idle" between calls, "bfs" inside the while loop of isTree
    res,            \* the outcome of the last call of each predicate, or "none"
    retLine,        \* the line at which the last call of isTree ended, 0 before it
    n,              \* isTree: n
    start,          \* isTree: start
    visited,        \* isTree: visited
    queue,          \* isTree: queue
    enq,            \* enqueue operations of the running traversal
    adds,           \* visited.add operations of the running traversal
    lastBfs         \* start and result of the last traversal that ended

vars == <<neighborhood, pc, res, retLine, n, start, visited, queue, enq, adds, lastBfs>>

locals == <<n, start, visited, queue, enq, adds>>

NoVertex == IntObj(0)

NoBfs == [start |-> NoVertex, ret |-> "none"]

NoLocals ==
    /\ n' = 0
    /\ start' = NoVertex
    /\ visited' = {}
    /\ queue' = <<>>
    /\ enq' = 0
    /\ adds' = 0

Init ==
    /\ IsInput(neighborhood)
    /\ pc = "idle"
    /\ res = [isNeighborhoodCorrect |-> "none", isUndirected |-> "none", isTree |-> "none"]
    /\ retLine = 0
    /\ n = 0
    /\ start = NoVertex
    /\ visited = {}
    /\ queue = <<>>
    /\ enq = 0
    /\ adds = 0
    /\ lastBfs = NoBfs

CallIsNeighborhoodCorrect ==
    /\ pc = "idle"
    /\ res' = [res EXCEPT !.isNeighborhoodCorrect = isNeighborhoodCorrect(neighborhood)]
    /\ UNCHANGED <<neighborhood, pc, retLine, locals, lastBfs>>

CallIsUndirected ==
    /\ pc = "idle"
    /\ \E r \in isUndirected(neighborhood) :
          res' = [res EXCEPT !.isUndirected = r]
    /\ UNCHANGED <<neighborhood, pc, retLine, locals, lastBfs>>

\* isTree ends at line l with outcome r
TreeEnds(r, l) ==
    /\ res' = [res EXCEPT !.isTree = r]
    /\ retLine' = l
    /\ pc' = "idle"
    /\ NoLocals

\* isTree up to the first test of the while loop
CallIsTree ==
    /\ pc = "idle"
    /\ \E e \in TreeEntry(neighborhood) :
          IF e.outcome # "traverse"
          THEN TreeEnds(e.outcome, e.line) /\ UNCHANGED <<neighborhood, lastBfs>>
          ELSE IF Keys(neighborhood) = {}
          THEN TreeEnds("StopIteration", 101) /\ UNCHANGED <<neighborhood, lastBfs>>
          ELSE \E first \in Keys(neighborhood) :
                  /\ n' = Cardinality(Keys(neighborhood))
                  /\ start' = first
                  /\ visited' = {}
                  /\ queue' = <<first>>
                  /\ enq' = 1
                  /\ adds' = 0
                  /\ pc' = "bfs"
                  /\ UNCHANGED <<neighborhood, res, retLine, lastBfs>>

\* the orders in which a for loop can go through the set S
Orders(S) == {q \in [1..Cardinality(S) -> S] : {q[i] : i \in DOMAIN q} = S}

\* the loop without its test of u in visited
NeverVisited(u, vis) == FALSE

\* if u in visited: continue
AlreadyVisited(u, vis) == u \in vis

\* the neighbors of u that the for loop appends once u is in visited
Appended(nb, u, vis) == {v \in nb.items[u].elems : v \notin vis}

\* BfsLoop taking the neighbors out of neighborhood[u] as it goes through them
BfsLoopDraining ==
    /\ pc = "bfs"
    /\ queue # <<>>
    /\ LET u == Head(queue)
       IN  IF AlreadyVisited(u, visited)
           THEN /\ queue' = Tail(queue)
                /\ UNCHANGED <<neighborhood, pc, res, retLine, n, start, visited, enq, adds, lastBfs>>
           ELSE IF u \notin Keys(neighborhood)
           THEN TreeEnds("KeyError", 110) /\ UNCHANGED <<neighborhood, lastBfs>>
           ELSE \E order \in Orders(Appended(neighborhood, u, visited \cup {u})) :
                   /\ visited' = visited \cup {u}
                   /\ adds' = adds + 1
                   /\ queue' = Tail(queue) \o order
                   /\ enq' = enq + Len(order)
                   /\ neighborhood' = WithValue(neighborhood, u, SetOf({}))
                   /\ UNCHANGED <<pc, res, retLine, n, start, lastBfs>>

\* one iteration of the while loop
BfsLoop ==
    /\ pc = "bfs"
    /\ queue # <<>>
    /\ LET u == Head(queue)
       IN  IF AlreadyVisited(u, visited)
           THEN /\ queue' = Tail(queue)
                /\ UNCHANGED <<neighborhood, pc, res, retLine, n, start, visited, enq, adds, lastBfs>>
           ELSE IF u \notin Keys(neighborhood)
           THEN TreeEnds("KeyError", 110) /\ UNCHANGED <<neighborhood, lastBfs>>
           ELSE \E order \in Orders(Appended(neighborhood, u, visited \cup {u})) :
                   /\ visited' = visited \cup {u}
                   /\ adds' = adds + 1
                   /\ queue' = Tail(queue) \o order
                   /\ enq' = enq + Len(order)
                   /\ UNCHANGED <<neighborhood, pc, res, retLine, n, start, lastBfs>>

\* the loop has ended: return len(visited) == n
BfsReturn ==
    /\ pc = "bfs"
    /\ queue = <<>>
    /\ lastBfs' = [start |-> start, ret |-> Bool(Cardinality(visited) = n)]
    /\ TreeEnds(Bool(Cardinality(visited) = n), 114)
    /\ UNCHANGED neighborhood

Next ==
    \/ CallIsNeighborhoodCorrect
    \/ CallIsUndirected
    \/ CallIsTree
    \/ BfsLoop
    \/ BfsReturn

Spec == Init /\ [][Next]_vars

\* the interpreter runs a call that has begun to its end
FairSpec == Spec /\ WF_vars(BfsLoop) /\ WF_vars(BfsReturn)

(* ------------------------------------------------------------------ *)
(* What the predicates are to decide, stated without the algorithm    *)
(* ------------------------------------------------------------------ *)

Fns == {"isNeighborhoodCorrect", "isUndirected", "isTree"}

Nbrs(g, u) == g.items[u].elems

\* a mapping of int keys to sets of int keys, none of them its own neighbor
StructurallyValid(g) ==
    /\ g.type = "dict"
    /\ \A u \in Keys(g) :
          /\ u.type = "int"
          /\ g.items[u].type = "set"
          /\ \A v \in Nbrs(g, u) : v.type = "int" /\ v \in Keys(g) /\ v # u

Symmetric(g) == \A u \in Keys(g) : \A v \in Nbrs(g, u) : u \in Nbrs(g, v)

\* the pairs u, v with v a neighbor of u
Arcs(g) == UNION {{<<u, v>> : v \in Nbrs(g, u)} : u \in Keys(g)}

\* the undirected edges of a symmetric graph
UndirectedEdges(g) == {P \in PairsOf(Keys(g)) : \E u, v \in P : u # v /\ v \in Nbrs(g, u)}

RECURSIVE ReachableFrom(_, _)
\* the vertices reached from the set S by following neighbor links
ReachableFrom(g, S) ==
    LET T == S \cup UNION {Nbrs(g, u) : u \in S}
    IN  IF T = S THEN S ELSE ReachableFrom(g, T)

Connected(g) == \A s \in Keys(g) : ReachableFrom(g, {s}) = Keys(g)

RECURSIVE ClosesCycle(_, _, _, _)
\* the distinct vertices seen, which begin with first and end with last, each a
\* neighbor of the next, are or can be extended to v1, ..., vk with k >= 3 and
\* vk a neighbor of v1
ClosesCycle(g, first, last, seen) ==
    \/ Cardinality(seen) >= 3 /\ last \in Nbrs(g, first)
    \/ \E next \in Keys(g) \ seen :
          /\ last \in Nbrs(g, next)
          /\ ClosesCycle(g, first, next, seen \cup {next})

\* v1, ..., vk distinct, k >= 3, each a neighbor of the next and vk of v1
HasCycle(g) == \E v \in Keys(g) : ClosesCycle(g, v, v, {v})

IsTreeGraph(g) ==
    /\ StructurallyValid(g)
    /\ Symmetric(g)
    /\ Cardinality(Keys(g)) > 0
    /\ Cardinality(UndirectedEdges(g)) = Cardinality(Keys(g)) - 1
    /\ Connected(g)

Called(f) == res[f] # "none"

(* ------------------------------------------------------------------ *)
(* Claims                                                             *)
(* ------------------------------------------------------------------ *)

\* C1: isTree returns true exactly for the structurally valid, symmetric graphs
\* with n > 0 vertices, n - 1 undirected edges and every vertex reachable from
\* every other; it is false for the empty mapping and true for a single vertex
\* without neighbors.
C1_IsTreeContract ==
    Called("isTree") =>
        /\ (res.isTree = "True") <=> IsTreeGraph(neighborhood)
        /\ (neighborhood.type = "dict" /\ Keys(neighborhood) = {}) => res.isTree = "False"
        /\ (\E u \in Keys(neighborhood) :
               /\ neighborhood.type = "dict"
               /\ u.type = "int"
               /\ Keys(neighborhood) = {u}
               /\ neighborhood.items[u] = SetOf({}))
           => res.isTree = "True"

C1_Witness ==
    /\ res.isTree = "True"
    /\ Cardinality(Keys(neighborhood)) = MaxVertex
    /\ \E u \in Keys(neighborhood) : Cardinality(Nbrs(neighborhood, u)) = 1

\* C2: isNeighborhoodCorrect returns true exactly when the input is a mapping
\* whose keys are integers, whose values are sets of integers that are keys
\* of the mapping, and in which no vertex is its own neighbor; the empty
\* mapping is accepted.
C2_StructuralContract ==
    Called("isNeighborhoodCorrect") =>
        /\ (res.isNeighborhoodCorrect = "True") <=> StructurallyValid(neighborhood)
        /\ (neighborhood.type = "dict" /\ Keys(neighborhood) = {})
           => res.isNeighborhoodCorrect = "True"

\* the only violation is one self-loop
C2_Witness ==
    /\ res.isNeighborhoodCorrect = "False"
    /\ neighborhood.type = "dict"
    /\ \E u \in Keys(neighborhood) :
          /\ u \in Nbrs(neighborhood, u)
          /\ StructurallyValid(WithValue(neighborhood, u, SetOf(Nbrs(neighborhood, u) \ {u})))

\* C3: isUndirected returns true exactly when the input is structurally valid
\* and every edge has its reverse edge; it is true for the empty mapping and
\* for a single vertex without neighbors.
C3_UndirectedContract ==
    Called("isUndirected") =>
        /\ (res.isUndirected = "True")
           <=> (StructurallyValid(neighborhood) /\ Symmetric(neighborhood))
        /\ (neighborhood.type = "dict" /\ Keys(neighborhood) = {})
           => res.isUndirected = "True"
        /\ (\E u \in Keys(neighborhood) :
               /\ neighborhood.type = "dict"
               /\ u.type = "int"
               /\ Keys(neighborhood) = {u}
               /\ neighborhood.items[u] = SetOf({}))
           => res.isUndirected = "True"

\* a structurally valid graph with exactly one reverse edge missing
C3_Witness ==
    /\ res.isUndirected = "False"
    /\ StructurallyValid(neighborhood)
    /\ Cardinality({e \in Keys(neighborhood) \X Keys(neighborhood) :
                       /\ e[2] \in Nbrs(neighborhood, e[1])
                       /\ e[1] \notin Nbrs(neighborhood, e[2])}) = 1

\* C4: on the same input, isTree true implies isUndirected true, and
\* isUndirected true implies isNeighborhoodCorrect true.
C4_ImplicationChain ==
    /\ (res.isTree = "True" /\ Called("isUndirected")) => res.isUndirected = "True"
    /\ (res.isUndirected = "True" /\ Called("isNeighborhoodCorrect"))
       => res.isNeighborhoodCorrect = "True"

C4_Witness ==
    /\ res.isTree = "True"
    /\ res.isUndirected = "True"
    /\ res.isNeighborhoodCorrect = "True"

\* C5: every call of every predicate ends by returning a boolean, never by
\* raising, and on an input that is not structurally valid it returns false.
C5_Total ==
    \A f \in Fns :
        /\ res[f] \in {"none", "True", "False"}
        /\ ~StructurallyValid(neighborhood) => res[f] \in {"none", "False"}

\* all three predicates have been called on a dict with a value that is no set
C5_Witness ==
    /\ \A f \in Fns : res[f] = "False"
    /\ neighborhood.type = "dict"
    /\ \E u \in Keys(neighborhood) : neighborhood.items[u].type = "NoneType"

\* C6: a graph for which isTree returns true has no cycle of three or more
\* distinct vertices.
C6_Acyclic == res.isTree = "True" => ~HasCycle(neighborhood)

\* isTree has accepted a graph with a vertex of degree three
C6_Witness ==
    /\ res.isTree = "True"
    /\ \E u \in Keys(neighborhood) : Cardinality(Nbrs(neighborhood, u)) = 3

\* C7: no step of any call changes the input, and a predicate called again
\* returns what its previous call returned.
C7_NoEffect ==
    [][/\ neighborhood' = neighborhood
       /\ \A f \in Fns : Called(f) => res'[f] = res[f]]_vars

\* isTree is about to return for the second time, after calls of the others
C7_Witness ==
    /\ pc = "bfs"
    /\ queue = <<>>
    /\ \A f \in Fns : Called(f)

\* C8: two traversals of the same graph, whatever their start vertices and
\* the orders in which they enqueue neighbors, give the same result.
C8_StartIndependent ==
    (pc = "bfs" /\ queue = <<>> /\ lastBfs # NoBfs)
        => Bool(Cardinality(visited) = n) = lastBfs.ret

\* a second traversal ends that started from another vertex
C8_Witness ==
    /\ pc = "bfs"
    /\ queue = <<>>
    /\ lastBfs # NoBfs
    /\ lastBfs.start # start
    /\ lastBfs.ret = "False"

\* C9: the while loop of isTree adds each vertex to visited at most once,
\* skips a dequeued vertex that is already visited without enqueuing anything,
\* enqueues at most 1 + the sum of the neighbor-set sizes times, and ends.
C9_BfsTerminates ==
    /\ [](pc = "bfs" =>
            /\ adds = Cardinality(visited)
            /\ enq <= 1 + Cardinality(Arcs(neighborhood)))
    /\ [][(pc = "bfs" /\ queue # <<>> /\ Head(queue) \in visited)
            => (visited' = visited /\ enq' = enq /\ adds' = adds /\ queue' = Tail(queue))]_vars
    /\ (pc = "bfs") ~> (pc = "idle")

\* a vertex that is already visited is at the head of the queue
C9_Witness ==
    /\ pc = "bfs"
    /\ queue # <<>>
    /\ Head(queue) \in visited

\* C10: isTree never returns at the odd-sum test: on every input that
\* isNeighborhoodCorrect and isUndirected accept, the neighbor-set sizes sum
\* to an even number.
C10_OddSumUnreachable ==
    /\ retLine # 94
    /\ (res.isNeighborhoodCorrect = "True" /\ res.isUndirected = "True")
       => Cardinality(Arcs(neighborhood)) % 2 = 0

\* isTree has gone past the odd-sum test on a graph with edges
C10_Witness ==
    /\ retLine = 98
    /\ \E u \in Keys(neighborhood) : Nbrs(neighborhood, u) # {}
====
